---- MODULE Spec2Model ----
(***************************************************************************)
(* istopphish backend: the URL heuristic scorer, the remote classifier     *)
(* client with its retry loop, the response parser, the risk fusion step,  *)
(* the form analysis and the HTML text extraction                          *)
(* (services/phishing_analyzer.py, services/llm_service.py), the           *)
(* sliding-window rate limiter (utils/rate_limit.py) and the POST          *)
(* endpoints that use them (routers/analysis.py).                          *)
(*                                                                         *)
(* Text is modelled as a sequence of one-character strings, so that        *)
(* urlparse, the regular expressions and the similarity ratio are computed *)
(* on characters as the code computes them.  Confidences produced by the   *)
(* fusion step are kept in tenths (x10) so that 0.4*h + 0.6*l is an        *)
(* integer: 4*h + 6*l.  For the scorer's confidences (multiples of 5) and  *)
(* whole-number model confidences the float arithmetic of the code gives   *)
(* the same values and the same threshold comparisons.                     *)
(***************************************************************************)
EXTENDS Integers, Sequences, FiniteSets, TLC

VARIABLES
    pc,                 \* position of the analyze_url call
    url,                \* the URL under analysis
    heuristic_result,   \* result of _heuristic_url_check
    attempt,            \* loop variable of analyze_text
    sent,               \* outcomes of the requests sent so far, in order
    llm_result,         \* value returned by analyze_text
    final_result,       \* value returned by analyze_url
    raised,             \* exception that left analyze_url, or "none"
    now,                \* time.time()
    requests,           \* RateLimiter.requests: identifier -> list of times
    rpc,                \* position of each endpoint handler
    admitted,           \* history: times of the check_limit calls that returned True
    request,            \* the request an endpoint handler received
    reply,              \* what the endpoint answered: a response or an HTTP error
    json_body,          \* argument of a _parse_llm_response call
    parse_result,       \* value that call returned
    html_content,       \* argument of an _extract_text call
    text_content,       \* value that call returned
    called,             \* the latest recorded check_limit call and its result
    rejected            \* history: calls of each identifier that returned False

avars == <<pc, url, heuristic_result, attempt, sent, llm_result, final_result, raised>>
lvars == <<now, requests, rpc, admitted>>
evars == <<request, reply>>
fvars == <<json_body, parse_result, html_content, text_content>>
cvars == <<called, rejected>>
vars == <<pc, url, heuristic_result, attempt, sent, llm_result, final_result, raised,
          now, requests, rpc, admitted, request, reply,
          json_body, parse_result, html_content, text_content, called, rejected>>

None == [none |-> TRUE]

(***************************************************************************)
(* Python helpers on strings and dicts                                     *)
(***************************************************************************)
Min(S) == CHOOSE x \in S : \A y \in S : x <= y
Max(S) == CHOOSE x \in S : \A y \in S : x >= y

\* dict.get(k, default)
Get(d, k, default) == IF k \in DOMAIN d THEN d[k] ELSE default

\* str.lower() on the letters the inputs use (re.IGNORECASE compares lowered text)
lower_char(c) ==
    CASE c = "P" -> "p"
      [] c = "A" -> "a"
      [] c = "L" -> "l"
      [] OTHER -> c

lower(s) == [i \in 1..Len(s) |-> lower_char(s[i])]

\* str.startswith(p)
startswith(s, p) == Len(s) >= Len(p) /\ SubSeq(s, 1, Len(p)) = p

\* p in s: s has p as a contiguous substring
contains(s, p) == \E i \in 1..(Len(s) - Len(p) + 1) : SubSeq(s, i, i + Len(p) - 1) = p

\* s.find(one of cs, from): first index >= from holding a character of cs, 0 if none
find_any(s, cs, from) ==
    LET I == {i \in from..Len(s) : s[i] \in cs}
    IN IF I = {} THEN 0 ELSE Min(I)

\* s.split('.'): the list of parts between dots
RECURSIVE split_dot(_)
split_dot(s) ==
    LET i == find_any(s, {"."}, 1)
    IN IF i = 0 THEN <<s>>
       ELSE <<SubSeq(s, 1, i - 1)>> \o split_dot(SubSeq(s, i + 1, Len(s)))

Digits == {"0", "1", "2", "3", "4", "5", "6", "7", "8", "9"}
Letters == {"a", "b", "c", "d", "e", "f", "g", "h", "i", "j", "k", "l", "m", "n", "o",
            "p", "q", "r", "s", "t", "u", "v", "w", "x", "y", "z", "P", "A", "L"}

\* r'\d+'
all_digits(s) == Len(s) > 0 /\ \A i \in 1..Len(s) : s[i] \in Digits

(***************************************************************************)
(* urllib.parse.urlparse, as called by _heuristic_url_check: the scheme    *)
(* up to the first ':', the netloc after '//' up to the first of '/?#',    *)
(* ValueError("Invalid IPv6 URL") on an unbalanced bracket in the netloc,  *)
(* and the path up to '?' or '#'.                                          *)
(***************************************************************************)
scheme_end(u) ==
    LET i == find_any(u, {":"}, 1)
    IN IF i > 1 /\ u[1] \in Letters
          /\ \A j \in 1..(i - 1) : u[j] \in Letters \cup Digits \cup {"+", "-", "."}
       THEN i ELSE 0

urlparse(u) ==
    LET se == scheme_end(u)
        rest == SubSeq(u, se + 1, Len(u))
        has_netloc == Len(rest) >= 2 /\ rest[1] = "/" /\ rest[2] = "/"
        delim == IF has_netloc THEN find_any(rest, {"/", "?", "#"}, 3) ELSE 0
        netloc_end == IF delim = 0 THEN Len(rest) ELSE delim - 1
        netloc == IF has_netloc THEN SubSeq(rest, 3, netloc_end) ELSE <<>>
        after == IF has_netloc THEN SubSeq(rest, netloc_end + 1, Len(rest)) ELSE rest
        cut == find_any(after, {"?", "#"}, 1)
        path == IF cut = 0 THEN after ELSE SubSeq(after, 1, cut - 1)
        open == \E i \in 1..Len(netloc) : netloc[i] = "["
        close == \E i \in 1..Len(netloc) : netloc[i] = "]"
    IN IF open # close
       THEN [exc |-> "ValueError"]
       ELSE [exc |-> "none", scheme |-> lower(SubSeq(u, 1, se - 1)),
             netloc |-> netloc, path |-> path]

(***************************************************************************)
(* PhishingAnalyzer: the heuristic checks                                  *)
(***************************************************************************)
domain_patterns == {
    <<"-", "s", "e", "c", "u", "r", "e", "-">>,
    <<"-", "v", "e", "r", "i", "f", "y", "-">>,
    <<"-", "c", "o", "n", "f", "i", "r", "m", "-">>,
    <<"-", "u", "p", "d", "a", "t", "e", "-">>,
    <<"-", "l", "o", "g", "i", "n", "-">>,
    <<"p", "a", "y", "p", "a", "l">>,
    <<"a", "m", "a", "z", "o", "n">>,
    <<"a", "p", "p", "l", "e">>,
    <<"g", "o", "o", "g", "l", "e">> }

_is_suspicious_domain(domain) ==
    \E p \in domain_patterns : contains(lower(domain), p)

_uses_ip_address(domain) ==
    LET parts == split_dot(domain)
    IN Len(parts) = 4 /\ \A i \in 1..4 : all_digits(parts[i])

path_patterns == {
    <<"v", "e", "r", "i", "f", "y">>,
    <<"c", "o", "n", "f", "i", "r", "m">>,
    <<"v", "a", "l", "i", "d", "a", "t", "e">>,
    <<"u", "p", "d", "a", "t", "e">>,
    <<"s", "e", "c", "u", "r", "e">> }

_has_suspicious_path(path) ==
    \E p \in path_patterns : contains(lower(path), p)

\* matches / max(len) > 0.7, as exact integer arithmetic
_is_similar(str1, str2) ==
    LET d == Len(str1) - Len(str2)
        short == IF d < 0 THEN Len(str1) ELSE Len(str2)
        long == IF d < 0 THEN Len(str2) ELSE Len(str1)
        matches == Cardinality({i \in 1..short : str1[i] = str2[i]})
    IN IF d > 2 \/ d < -2 THEN FALSE ELSE 10 * matches > 7 * long

legitimate == {
    <<"g", "o", "o", "g", "l", "e", ".", "c", "o", "m">>,
    <<"f", "a", "c", "e", "b", "o", "o", "k", ".", "c", "o", "m">>,
    <<"a", "m", "a", "z", "o", "n", ".", "c", "o", "m">>,
    <<"p", "a", "y", "p", "a", "l", ".", "c", "o", "m">> }

_has_typosquatting_pattern(domain) ==
    \E legit \in legitimate : _is_similar(split_dot(domain)[1], split_dot(legit)[1])

https == <<"h", "t", "t", "p", "s">>

\* the rules of _heuristic_url_check in the order the code tests them:
\* <<risk factor, points, fired>>
url_rules(u, parsed) ==
    << <<"Suspicious domain pattern", 30, _is_suspicious_domain(parsed.netloc)>>,
       <<"Using IP address instead of domain", 25, _uses_ip_address(parsed.netloc)>>,
       <<"Not using HTTPS", 20, ~startswith(u, https)>>,
       <<"Suspicious URL path", 15, _has_suspicious_path(parsed.path)>>,
       <<"Possible typosquatting", 25, _has_typosquatting_pattern(parsed.netloc)>> >>

RECURSIVE fired_factors(_)
fired_factors(rules) ==
    IF rules = <<>> THEN <<>>
    ELSE (IF rules[1][3] THEN <<rules[1][1]>> ELSE <<>>) \o fired_factors(Tail(rules))

RECURSIVE fired_points(_)
fired_points(rules) ==
    IF rules = <<>> THEN 0
    ELSE (IF rules[1][3] THEN rules[1][2] ELSE 0) + fired_points(Tail(rules))

\* '; '.join(risk_factors)
RECURSIVE join(_)
join(xs) ==
    IF xs = <<>> THEN <<>>
    ELSE IF Len(xs) = 1 THEN xs
    ELSE <<xs[1], "; ">> \o join(Tail(xs))

url_risk_level_strict(confidence) ==
    IF confidence >= 80 THEN "critical"
    ELSE IF confidence > 60 THEN "high"
    ELSE IF confidence >= 40 THEN "medium"
    ELSE IF confidence >= 20 THEN "low"
    ELSE "safe"

url_risk_level(confidence) ==
    IF confidence >= 80 THEN "critical"
    ELSE IF confidence >= 60 THEN "high"
    ELSE IF confidence >= 40 THEN "medium"
    ELSE IF confidence >= 20 THEN "low"
    ELSE "safe"

url_action_strict(confidence) ==
    IF confidence >= 85 THEN "block" ELSE IF confidence > 50 THEN "warn" ELSE "safe"

url_action(confidence) ==
    IF confidence >= 85 THEN "block" ELSE IF confidence >= 50 THEN "warn" ELSE "safe"

_heuristic_url_check(u) ==
    LET parsed == urlparse(u)
        rules == url_rules(u, parsed)
        risk_factors == fired_factors(rules)
        confidence == fired_points(rules)
    IN IF parsed.exc # "none"
       THEN [risk_level |-> "unknown",
             confidence |-> 0,
             reasoning |-> <<"Analysis failed">>,
             action |-> "warn",
             phishing_indicators |-> <<>>]
       ELSE [risk_level |-> url_risk_level(confidence),
             confidence |-> IF confidence < 100 THEN confidence ELSE 100,
             reasoning |-> IF risk_factors = <<>>
                           THEN <<"No suspicious patterns detected">>
                           ELSE join(risk_factors),
             action |-> url_action(confidence),
             phishing_indicators |-> risk_factors]

(***************************************************************************)
(* The URLs analysed: scheme, authority and path                           *)
(***************************************************************************)
Schemes == {
    <<"h", "t", "t", "p", ":", "/", "/">>,
    <<"h", "t", "t", "p", "s", ":", "/", "/">> }

Authorities == {
    <<"e", "x", "a", "m", "p", "l", "e", ".", "c", "o", "m">>,
    <<"p", "a", "y", "p", "a", "l", "-", "s", "e", "c", "u", "r", "e", "-",
      "l", "o", "g", "i", "n", ".", "c", "o", "m">>,
    <<"p", "a", "y", "p", "a", "l", ".", "c", "o", "m">>,
    <<"P", "a", "y", "P", "A", "L", ".", "c", "o", "m">>,
    <<"p", "a", "y", "p", "a", "1", ".", "c", "o", "m">>,
    <<"1", ".", "2", ".", "3", ".", "4">>,
    <<"1", ".", "2", ".", "3", ".", "4", ":", "8", "0">>,
    <<"u", "@", "1", ".", "2", ".", "3", ".", "4">>,
    <<"[", ":", ":", "1">> }

Paths == {
    <<>>,
    <<"/", "a">>,
    <<"/", "v", "e", "r", "i", "f", "y">>,
    <<"/", "a", "?", "v", "e", "r", "i", "f", "y">> }

Urls == {s \o a \o p : s \in Schemes, a \in Authorities, p \in Paths}

(***************************************************************************)
(* LLMService: the text the remote model generates is a sequence of tokens *)
(* (prose, a newline, "{", "}", or one "key": value member), and a JSON     *)
(* body is the                                                             *)
(* value response.json() yields.                                           *)
(***************************************************************************)
Prose == [t |-> "prose"]
LBrace == [t |-> "{"]
RBrace == [t |-> "}"]
Newline == [t |-> "newline"]
Member(k, v) == [t |-> "member", k |-> k, m |-> [x \in {k} |-> v]]

\* d1 updated with d2: the later member of a JSON object wins
update(d1, d2) ==
    [k \in DOMAIN d1 \cup DOMAIN d2 |-> IF k \in DOMAIN d2 THEN d2[k] ELSE d1[k]]

\* json.loads on a token span: an object is "{", members, "}", with
\* whitespace allowed between them
RECURSIVE members_dict(_)
members_dict(ms) ==
    IF ms = <<>> THEN <<>>
    ELSE update(members_dict(SubSeq(ms, 1, Len(ms) - 1)), ms[Len(ms)].m)

json_loads(span) ==
    LET inner == SubSeq(span, 2, Len(span) - 1)
    IN IF \A i \in 1..Len(inner) : inner[i].t \in {"member", "newline"}
       THEN [exc |-> "none",
             value |-> members_dict(SelectSeq(inner, LAMBDA tok : tok.t = "member"))]
       ELSE [exc |-> "JSONDecodeError"]

json_match_shortest(text) ==
    LET opens == {i \in 1..Len(text) : text[i].t = "{"}
        first == IF opens = {} THEN 0 ELSE Min(opens)
        closes == {i \in 1..Len(text) : text[i].t = "}" /\ first # 0 /\ i > first}
    IN IF closes = {} THEN <<>> ELSE SubSeq(text, first, Min(closes))

\* re.search(r'\{.*\}', text, re.DOTALL): from the first "{" to the last "}"
json_match(text) ==
    LET opens == {i \in 1..Len(text) : text[i].t = "{"}
        first == IF opens = {} THEN 0 ELSE Min(opens)
        closes == {i \in 1..Len(text) : text[i].t = "}" /\ first # 0 /\ i > first}
    IN IF closes = {} THEN <<>> ELSE SubSeq(text, first, Max(closes))

_parse_llm_response_default(response) ==
    IF response.shape = "list" /\ response.items = 0
    THEN [error |-> "'list' object has no attribute 'get'"]
    ELSE LET text == IF response.has_text THEN response.text ELSE <<>>
             span == json_match(text)
             decoded == json_loads(span)
         IN IF span # <<>>
            THEN IF decoded.exc = "none" THEN decoded.value
                 ELSE [error |-> "JSONDecodeError"]
            ELSE [risk_level |-> "low", confidence |-> 50]

\* response: [shape |-> "list" | "dict", items |-> number of list items,
\*            has_text |-> "generated_text" present, text |-> it]
_parse_llm_response(response) ==
    IF response.shape = "list" /\ response.items = 0
    THEN [error |-> "'list' object has no attribute 'get'"]
    ELSE LET text == IF response.has_text THEN response.text ELSE <<>>
             span == json_match(text)
             decoded == json_loads(span)
         IN IF span # <<>>
            THEN IF decoded.exc = "none" THEN decoded.value
                 ELSE [error |-> "JSONDecodeError"]
            ELSE [error |-> "Could not parse LLM response"]

max_retries == 2

\* f"LLM analysis failed: {response.status}"
status_error(status) ==
    IF status = 503 THEN "LLM analysis failed: 503" ELSE "LLM analysis failed: 500"

may_retry_off_by_one(att) == att < max_retries

\* attempt < max_retries - 1
may_retry(att) == att < max_retries - 1

\* one pass of the loop body of analyze_text once the request has an outcome:
\* what the call does next.  [do |-> "return", value |-> dict] or [do |-> "sleep"]
on_outcome(att, outcome) ==
    CASE outcome.kind = "status" /\ outcome.status = 200 ->
            [do |-> "return", value |-> _parse_llm_response(outcome.body)]
      [] outcome.kind = "status" /\ outcome.status = 503 /\ may_retry(att) ->
            [do |-> "sleep", seconds |-> 2]
      [] outcome.kind = "status" /\ outcome.status # 200
                                 /\ ~(outcome.status = 503 /\ may_retry(att)) ->
            [do |-> "return", value |-> [error |-> status_error(outcome.status)]]
      [] outcome.kind = "ClientError" /\ may_retry(att) ->
            [do |-> "sleep", seconds |-> 1]
      [] outcome.kind = "ClientError" /\ ~may_retry(att) ->
            [do |-> "return", value |-> [error |-> "Cannot connect to host"]]
      [] outcome.kind = "TimeoutError" ->
            [do |-> "return", value |-> [error |-> ""]]
      [] outcome.kind = "Exception" ->
            [do |-> "return", value |-> [error |-> "unexpected"]]

(***************************************************************************)
(* PhishingAnalyzer._combine_results                                       *)
(***************************************************************************)
risk_levels == <<"safe", "low", "medium", "high", "critical">>

\* list.index(x): [exc |-> "none", value |-> 0-based index] or ValueError
index(xs, x) ==
    LET I == {i \in 1..Len(xs) : xs[i] = x}
    IN IF I = {} THEN [exc |-> "ValueError"] ELSE [exc |-> "none", value |-> Min(I) - 1]

combined_confidence_unweighted(heuristic, llm) ==
    Get(heuristic, "confidence", 0) * 10 + Get(llm, "confidence", 0) * 6

\* 0.4 * heuristic confidence + 0.6 * llm confidence, in tenths
combined_confidence(heuristic, llm) ==
    Get(heuristic, "confidence", 0) * 4 + Get(llm, "confidence", 0) * 6

final_level_heuristic_only(heur_level, llm_level) ==
    risk_levels[heur_level + 1]

final_level(heur_level, llm_level) ==
    risk_levels[(IF heur_level >= llm_level THEN heur_level ELSE llm_level) + 1]

\* 'block' if c >= 85 else ('warn' if c >= 50 else 'safe'), c in tenths
combined_action(c) ==
    IF c >= 850 THEN "block" ELSE IF c >= 500 THEN "warn" ELSE "safe"

_combine_results(heuristic, llm) ==
    LET c == combined_confidence(heuristic, llm)
        heur_level == index(risk_levels, Get(heuristic, "risk_level", "safe"))
        llm_level == index(risk_levels, Get(llm, "risk_level", "safe"))
    IN IF heur_level.exc # "none" THEN [exc |-> heur_level.exc]
       ELSE IF llm_level.exc # "none" THEN [exc |-> llm_level.exc]
       ELSE [exc |-> "none",
             value |-> [
                risk_level |-> final_level(heur_level.value, llm_level.value),
                confidence_x10 |-> IF c < 1000 THEN c ELSE 1000,
                reasoning |-> <<"Heuristic: ">> \o Get(heuristic, "reasoning", <<>>)
                              \o <<" | LLM: ">> \o Get(llm, "reasoning", <<>>),
                action |-> combined_action(c),
                phishing_indicators |-> Get(heuristic, "phishing_indicators", <<>>)
                                        \o Get(llm, "indicators", <<>>)]]

(***************************************************************************)
(* What the remote model may answer                                        *)
(***************************************************************************)
RiskMembers ==
    {<<>>} \cup {<<Member("risk_level", r)>> :
                    r \in {"safe", "low", "medium", "high", "critical", "unknown"}}

ConfidenceMembers ==
    {<<>>} \cup {<<Member("confidence", c)>> : c \in {-50, 0, 50, 95, 100, 150}}

OtherMembers == {
    <<>>,
    <<Member("reasoning", <<"urgent request">>), Member("indicators", <<"urgency">>)>>,
    <<Member("action", "block")>>,
    <<Member("error", "model refused")>> }

Objects == {r \o c \o o : r \in RiskMembers, c \in ConfidenceMembers, o \in OtherMembers}

Scenario ==
    <<LBrace, Member("risk_level", "high"), Member("confidence", 90),
      Member("reasoning", <<"urgent request">>), Member("indicators", <<"urgency">>),
      RBrace>>

\* answers in the formats the email and page prompts ask for (the email one
\* with an action added), and a page answer with a level outside the format
EmailScenario ==
    <<LBrace, Member("risk_level", "high"), Member("confidence", 90),
      Member("reasoning", <<"sender spoofing">>),
      Member("suspicious_elements", <<"reply-to">>), Member("action", "block"), RBrace>>

PageScenario ==
    <<LBrace, Member("overall_risk", "high"), Member("confidence", 80),
      Member("reasoning", <<"credential harvesting">>),
      Member("recommendations", <<"leave the page">>), RBrace>>

\* the URL answer laid out over several lines, as the prompt shows it
ScenarioLines ==
    <<Prose, Newline, LBrace, Newline, Member("risk_level", "high"), Newline,
      Member("confidence", 90), Newline, RBrace, Newline>>

PageScenarioOffFormat ==
    <<LBrace, Member("overall_risk", "severe"), Member("confidence", 80), RBrace>>

\* texts whose span from the first "{" to the last "}" is one JSON object
GoodTexts ==
    {<<LBrace>> \o o \o <<RBrace>> : o \in Objects}
    \cup { <<Prose>> \o Scenario,
           <<Prose>> \o Scenario \o <<Prose>>,
           <<LBrace, Member("risk_level", "low"), Member("risk_level", "high"), RBrace>>,
           EmailScenario, PageScenario, PageScenarioOffFormat, ScenarioLines,
           <<Prose, Newline, RBrace, Newline>> \o Scenario \o <<Newline, Prose, LBrace>> }

\* texts with no such span, or whose span is not JSON
BadTexts == {
    Scenario \o <<Prose>> \o Scenario,
    <<LBrace, Prose, RBrace>>,
    <<RBrace, Prose, LBrace>>,
    <<LBrace, Member("risk_level", "high")>>,
    <<Prose>>,
    <<>> }

GoodBodies ==
    {[shape |-> "list", items |-> 1, has_text |-> TRUE, text |-> t] : t \in GoodTexts}
    \cup {[shape |-> "dict", items |-> 0, has_text |-> TRUE, text |-> <<Prose>> \o Scenario]}

BadBodies ==
    {[shape |-> "list", items |-> 1, has_text |-> TRUE, text |-> t] : t \in BadTexts}
    \cup { [shape |-> "dict", items |-> 0, has_text |-> FALSE, text |-> <<>>],
           [shape |-> "list", items |-> 1, has_text |-> FALSE, text |-> <<>>],
           [shape |-> "list", items |-> 0, has_text |-> FALSE, text |-> <<>>] }

Bodies == GoodBodies \cup BadBodies

Outcomes ==
    {[kind |-> "status", status |-> 200, body |-> b] : b \in Bodies}
    \cup {[kind |-> "status", status |-> st] : st \in {500, 503}}
    \cup {[kind |-> k] : k \in {"ClientError", "TimeoutError", "Exception"}}

(***************************************************************************)
(* PhishingAnalyzer.analyze_url with LLMService.analyze_text inlined at    *)
(* its await points                                                        *)
(***************************************************************************)
\* analyze_url up to the first request of analyze_text
Analyze(u) ==
    /\ pc = "idle"
    /\ url' = u
    /\ heuristic_result' = _heuristic_url_check(u)
    /\ attempt' = 0
    /\ sent' = <<"pending">>
    /\ pc' = "request"
    /\ UNCHANGED <<llm_result, final_result, raised>>

\* analyze_text returns value, and analyze_url combines and returns
Return(value) ==
    LET combined == _combine_results(heuristic_result, value)
    IN /\ llm_result' = value
       /\ IF combined.exc = "none"
          THEN final_result' = combined.value /\ raised' = "none"
          ELSE final_result' = None /\ raised' = combined.exc
       /\ pc' = "done"
       /\ UNCHANGED attempt

\* how an outcome is recorded in sent
label(outcome) ==
    IF outcome.kind # "status" THEN outcome.kind
    ELSE IF outcome.status = 200
         THEN (IF outcome.body \in GoodBodies THEN "200" ELSE "200 unparsable")
    ELSE IF outcome.status = 503 THEN "503"
    ELSE "other status"

\* the request in flight ends with outcome
Outcome(outcome) ==
    /\ pc = "request"
    /\ sent' = [sent EXCEPT ![Len(sent)] = label(outcome)]
    /\ LET next == on_outcome(attempt, outcome)
       IN IF next.do = "return"
          THEN Return(next.value)
          ELSE /\ pc' = "sleep"
               /\ UNCHANGED <<attempt, llm_result, final_result, raised>>
    /\ UNCHANGED url
    /\ UNCHANGED heuristic_result

\* asyncio.sleep is over: continue with the next attempt
Retry ==
    /\ pc = "sleep"
    /\ attempt' = attempt + 1
    /\ sent' = Append(sent, "pending")
    /\ pc' = "request"
    /\ UNCHANGED <<url, heuristic_result, llm_result, final_result, raised>>

AInit ==
    /\ pc = "idle"
    /\ url = <<>>
    /\ heuristic_result = None
    /\ attempt = 0
    /\ sent = <<>>
    /\ llm_result = None
    /\ final_result = None
    /\ raised = "none"

(***************************************************************************)
(* RateLimiter and the /api/analyze-url endpoint                           *)
(***************************************************************************)
requests_per_hour == 2
Hour == 3600
NumHandlers == 2
MaxTime == 7300

Identifiers == {"default", "client"}
MaxRejected == 2
MaxCallTime == 5403
Handlers == 1..NumHandlers
Steps == {1799, 1800, 1801}

check_limit_off_by_one(reqs, t, identifier) ==
    LET hour_ago == t - Hour
        kept == SelectSeq(reqs[identifier], LAMBDA req_time : req_time > hour_ago)
    IN IF Len(kept) > requests_per_hour
       THEN [result |-> FALSE, requests |-> [reqs EXCEPT ![identifier] = kept]]
       ELSE [result |-> TRUE, requests |-> [reqs EXCEPT ![identifier] = Append(kept, t)]]

check_limit_records_rejected(reqs, t, identifier) ==
    LET hour_ago == t - Hour
        kept == SelectSeq(reqs[identifier], LAMBDA req_time : req_time > hour_ago)
    IN IF Len(kept) >= requests_per_hour
       THEN [result |-> FALSE, requests |-> [reqs EXCEPT ![identifier] = Append(kept, t)]]
       ELSE [result |-> TRUE, requests |-> [reqs EXCEPT ![identifier] = Append(kept, t)]]

\* check_limit(identifier) on self.requests = reqs at time.time() = t:
\* the value returned and self.requests afterwards
check_limit(reqs, t, identifier) ==
    LET hour_ago == t - Hour
        kept == SelectSeq(reqs[identifier], LAMBDA req_time : req_time > hour_ago)
    IN IF Len(kept) >= requests_per_hour
       THEN [result |-> FALSE, requests |-> [reqs EXCEPT ![identifier] = kept]]
       ELSE [result |-> TRUE, requests |-> [reqs EXCEPT ![identifier] = Append(kept, t)]]

\* handler h of POST /api/analyze-url runs to its first suspension: the limit
\* check, and either the HTTPException or the start of the analysis
Handle(h) ==
    /\ rpc[h].at = "idle"
    /\ LET r == check_limit(requests, now, "default")
       IN /\ requests' = r.requests
          /\ IF r.result
             THEN /\ admitted' = Append(admitted, now)
                  /\ rpc' = [rpc EXCEPT ![h] = [at |-> "analyzing", status |-> 0]]
             ELSE /\ admitted' = admitted
                  \* HTTPException(429) is an Exception: the handler's own
                  \* except clause turns it into HTTPException(500)
                  /\ rpc' = [rpc EXCEPT ![h] = [at |-> "idle", status |-> 500]]
    /\ UNCHANGED now

\* the analysis of handler h ends: a verdict (200) or an exception (500)
Respond(h, ok) ==
    /\ rpc[h].at = "analyzing"
    /\ rpc' = [rpc EXCEPT ![h] = [at |-> "idle", status |-> IF ok THEN 200 ELSE 500]]
    /\ UNCHANGED <<now, requests, admitted>>

\* time passes
Tick(d) ==
    /\ now + d <= MaxTime
    /\ now' = now + d
    /\ UNCHANGED <<requests, rpc, admitted>>

\* rate_limiter.check_limit(identifier) called directly
CheckLimit(identifier) ==
    LET r == check_limit(requests, now, identifier)
    IN /\ r.result \/ rejected[identifier] < MaxRejected
       /\ requests' = r.requests
       /\ called' = [identifier |-> identifier, at |-> now, result |-> r.result]
       /\ admitted' = IF r.result /\ identifier = "default"
                      THEN Append(admitted, now) ELSE admitted
       /\ rejected' = IF r.result THEN rejected
                      ELSE [rejected EXCEPT ![identifier] = @ + 1]
       /\ UNCHANGED <<now, rpc>>

LInit ==
    /\ now = 0
    /\ requests = [i \in Identifiers |-> <<>>]
    /\ rpc = [h \in Handlers |-> [at |-> "idle", status |-> 0]]
    /\ admitted = <<>>

\* no endpoint request, no direct call of a helper yet
EInit == request = None /\ reply = None
FInit == json_body = None /\ parse_result = None /\ html_content = <<>> /\ text_content = None
CInit == called = None /\ rejected = [i \in Identifiers |-> 0]

(***************************************************************************)
(* routers/analysis.py: the POST endpoints, one request per behaviour.     *)
(* The prompt an endpoint builds does not decide what the remote model     *)
(* answers, so the page and email requests carry no content here.          *)
(***************************************************************************)
RiskLevel == {"safe", "low", "medium", "high", "critical"}
UserAction == {"safe", "verify", "warn", "block"}

\* raise HTTPException(status_code, detail), as the client receives it
HTTPException(status_code, detail) == [status |-> status_code, detail |-> detail]

\* main.py generic_exception_handler: an exception that leaves a handler
generic_exception_handler == [status |-> 500, detail |-> "Internal server error"]

\* AnalysisResponse(risk_level=result['risk_level'], ...): KeyError on a
\* missing key, ValidationError on a value outside the enums
AnalysisResponse(result) ==
    IF ~({"risk_level", "confidence", "reasoning", "action"} \subseteq DOMAIN result)
    THEN [exc |-> "KeyError"]
    ELSE IF result.risk_level \notin RiskLevel \/ result.action \notin UserAction
    THEN [exc |-> "ValidationError"]
    ELSE [exc |-> "none",
          value |-> [status |-> 200,
                     risk_level |-> result.risk_level,
                     confidence |-> result.confidence,
                     reasoning |-> result.reasoning,
                     action |-> result.action]]

\* UrlAnalysisResponse built from the dict analyze_url returned
UrlAnalysisResponse(result) ==
    IF result.risk_level \notin RiskLevel \/ result.action \notin UserAction
    THEN [exc |-> "ValidationError"]
    ELSE [exc |-> "none",
          value |-> [status |-> 200,
                     risk_level |-> result.risk_level,
                     confidence_x10 |-> result.confidence_x10,
                     reasoning |-> result.reasoning,
                     action |-> result.action,
                     phishing_indicators |-> result.phishing_indicators]]

\* analyze_page after analyze_page_content returned llm_analysis
PageAnalysisResponse(llm_analysis) ==
    IF "error" \in DOMAIN llm_analysis
    THEN [exc |-> "none",
          value |-> [status |-> 200, overall_risk |-> "low", confidence |-> 50,
                     recommendations |->
                        <<"LLM analysis unavailable, using heuristic detection only">>]]
    ELSE IF Get(llm_analysis, "overall_risk", "low") \notin RiskLevel
    THEN [exc |-> "ValidationError"]
    ELSE [exc |-> "none",
          value |-> [status |-> 200,
                     overall_risk |-> Get(llm_analysis, "overall_risk", "low"),
                     confidence |-> Get(llm_analysis, "confidence", 50),
                     recommendations |-> Get(llm_analysis, "recommendations", <<>>)]]

\* try: return Response(...)  except Exception as e: raise HTTPException(500, str(e))
respond(built) ==
    IF built.exc = "none" THEN built.value ELSE HTTPException(500, built.exc)

\* PhishingAnalyzer.analyze_form on the fields of a form request
analyze_form(form) ==
    LET different == ~contains(form.url, form.target_domain)
        sensitive == \E i \in 1..Len(form.fields) :
                        form.fields[i] \in {"password", "ssn", "credit_card"}
        risk_factors == (IF different THEN <<"Form submits to different domain">> ELSE <<>>)
                        \o (IF sensitive THEN <<"Form collects sensitive information">>
                            ELSE <<>>)
        confidence == (IF different THEN 50 ELSE 0) + (IF sensitive THEN 30 ELSE 0)
    IN [risk_level |-> IF confidence >= 50 THEN "high" ELSE "medium",
        confidence |-> Min({confidence, 100}),
        reasoning |-> join(risk_factors),
        action |-> IF confidence >= 80 THEN "block" ELSE "warn"]

FormUrls == { <<"h", "t", "t", "p", ":", "/", "/", "a", ".", "c", "o", "/", "l">>,
              <<"h", "t", "t", "p", ":", "/", "/", "b", ".", "c", "o">> }
TargetDomains == { <<"a", ".", "c", "o">>, <<"b", ".", "c", "o">>, <<>> }
FieldLists == { <<>>, <<"email">>, <<"password">>, <<"email", "ssn">>,
                <<"credit_card", "name">> }
FormRequests ==
    {[endpoint |-> "analyze-form", url |-> u, target_domain |-> t, fields |-> f] :
        u \in FormUrls, t \in TargetDomains, f \in FieldLists}

\* POST /api/analyze-url up to the first await: the limit check, then either
\* the HTTPException(429), which the handler's own except Exception clause
\* turns into HTTPException(500, str(e)), or analyze_url up to its request
PostAnalyzeUrl(u) ==
    /\ request = None
    /\ request' = [endpoint |-> "analyze-url", url |-> u]
    /\ LET r == check_limit(requests, now, "default")
       IN /\ requests' = r.requests
          /\ called' = [identifier |-> "default", at |-> now, result |-> r.result]
          /\ IF r.result
             THEN /\ Analyze(u)
                  /\ admitted' = Append(admitted, now)
                  /\ reply' = None
             ELSE /\ UNCHANGED avars
                  /\ admitted' = admitted
                  /\ reply' = HTTPException(500, "429: Rate limit exceeded")
    /\ UNCHANGED <<now, rpc>>

\* POST /api/analyze-page and /api/analyze-email up to the first request of
\* analyze_text
PostAnalyzeText(endpoint) ==
    /\ request = None
    /\ request' = [endpoint |-> endpoint]
    /\ pc = "idle"
    /\ attempt' = 0
    /\ sent' = <<"pending">>
    /\ pc' = "request"
    /\ reply' = None
    /\ UNCHANGED <<url, heuristic_result, llm_result, final_result, raised, lvars>>

\* POST /api/analyze-form: the handler reads its local result (lines 148-153)
\* before the call that assigns it (line 156): UnboundLocalError.  Its except
\* clause then reads request.sender, which a form request does not have, and
\* that exception leaves the handler
PostAnalyzeForm(form) ==
    /\ request = None
    /\ request' = form
    /\ reply' = generic_exception_handler
    /\ UNCHANGED <<avars, lvars>>

\* analyze_text inside analyze_page_content and analyze_email: what it
\* returns is handed on as it is
RawOutcome(outcome) ==
    /\ pc = "request"
    /\ sent' = [sent EXCEPT ![Len(sent)] = label(outcome)]
    /\ LET next == on_outcome(attempt, outcome)
       IN IF next.do = "return"
          THEN llm_result' = next.value /\ pc' = "done"
          ELSE pc' = "sleep" /\ UNCHANGED llm_result
    /\ UNCHANGED <<url, heuristic_result, attempt, final_result, raised>>

\* the request in flight ends with outcome; once analyze_text has returned
\* the handler runs on to its response without another await
PostOutcome(outcome) ==
    /\ request # None
    /\ pc = "request"
    /\ CASE request.endpoint = "analyze-url" ->
              /\ Outcome(outcome)
              /\ reply' = IF pc' # "done" THEN None
                          ELSE IF raised' # "none" THEN HTTPException(500, raised')
                          ELSE respond(UrlAnalysisResponse(final_result'))
         [] request.endpoint = "analyze-page" ->
              /\ RawOutcome(outcome)
              /\ reply' = IF pc' # "done" THEN None
                          ELSE respond(PageAnalysisResponse(llm_result'))
         [] request.endpoint = "analyze-email" ->
              /\ RawOutcome(outcome)
              /\ reply' = IF pc' # "done" THEN None
                          ELSE respond(AnalysisResponse(llm_result'))
    /\ UNCHANGED <<request, lvars>>

\* the limiter as earlier requests left it: empty, or at its limit
EndpointsInit ==
    /\ AInit /\ EInit /\ FInit /\ CInit
    /\ now = 0
    /\ \E n \in {0, requests_per_hour} :
          /\ requests = [i \in Identifiers |-> IF i = "default" THEN [k \in 1..n |-> 0]
                                               ELSE <<>>]
          /\ admitted = [k \in 1..n |-> 0]
    /\ rpc = [h \in Handlers |-> [at |-> "idle", status |-> 0]]

(***************************************************************************)
(* LLMService._parse_llm_response called on its own                        *)
(***************************************************************************)
ParseLlmResponse ==
    /\ parse_result = None
    /\ json_body # None
    /\ parse_result' = _parse_llm_response(json_body)
    /\ UNCHANGED <<avars, lvars, evars, cvars, json_body, html_content, text_content>>

\* any body response.json() may yield
ParserInit ==
    /\ AInit /\ LInit /\ EInit /\ CInit
    /\ json_body \in Bodies
    /\ parse_result = None
    /\ html_content = <<>>
    /\ text_content = None

(***************************************************************************)
(* PhishingAnalyzer._extract_text, on characters                           *)
(***************************************************************************)
\* s.find(p, from): first index >= from where p starts, 0 if none
find(s, p, from) ==
    LET I == {i \in from..(Len(s) - Len(p) + 1) : SubSeq(s, i, i + Len(p) - 1) = p}
    IN IF I = {} THEN 0 ELSE Min(I)

\* leftmost match of open[^>]*>.*?close under re.DOTALL: [from, to], or from = 0.
\* [^>]* stops at the first ">" after open, .*? at the first close after that
search_block(s, open, close) ==
    LET tag_end(i) == find(s, <<">">>, i + Len(open))
        block_end(i) == IF tag_end(i) = 0 THEN 0 ELSE find(s, close, tag_end(i) + 1)
        starts == {i \in 1..(Len(s) - Len(open) + 1) :
                      SubSeq(s, i, i + Len(open) - 1) = open /\ block_end(i) # 0}
    IN IF starts = {} THEN [from |-> 0, to |-> 0]
       ELSE [from |-> Min(starts), to |-> block_end(Min(starts)) + Len(close) - 1]

\* re.sub(open[^>]*>.*?close, '', s, flags=re.DOTALL)
RECURSIVE sub_block(_, _, _)
sub_block(s, open, close) ==
    LET m == search_block(s, open, close)
    IN IF m.from = 0 THEN s
       ELSE SubSeq(s, 1, m.from - 1) \o sub_block(SubSeq(s, m.to + 1, Len(s)), open, close)

\* leftmost match of <[^>]+>: a "<", at least one character that is not ">",
\* then the first ">"
search_tag(s) ==
    LET tag_end(i) == find(s, <<">">>, i + 1)
        starts == {i \in 1..Len(s) : s[i] = "<" /\ tag_end(i) > i + 1}
    IN IF starts = {} THEN [from |-> 0, to |-> 0]
       ELSE [from |-> Min(starts), to |-> tag_end(Min(starts))]

\* re.sub(r'<[^>]+>', '', s)
RECURSIVE sub_tags(_)
sub_tags(s) ==
    LET m == search_tag(s)
    IN IF m.from = 0 THEN s
       ELSE SubSeq(s, 1, m.from - 1) \o sub_tags(SubSeq(s, m.to + 1, Len(s)))

whitespace == {" ", "\n"}

\* ' '.join(s.split()): the words of s, one space between them
split_join(s) ==
    LET keep(i) == \/ s[i] \notin whitespace
                   \/ /\ i > 1
                      /\ s[i - 1] \notin whitespace
                      /\ \E j \in (i + 1)..Len(s) : s[j] \notin whitespace
        kept == SelectSeq([i \in 1..Len(s) |-> i], keep)
    IN [k \in 1..Len(kept) |-> IF s[kept[k]] \in whitespace THEN " " ELSE s[kept[k]]]

\* text[:5000]
MaxText == 5000

script_open == <<"<", "s", "c", "r", "i", "p", "t">>
script_close == <<"<", "/", "s", "c", "r", "i", "p", "t", ">">>
style_open == <<"<", "s", "t", "y", "l", "e">>
style_close == <<"<", "/", "s", "t", "y", "l", "e", ">">>

_extract_text(html) ==
    LET no_script == sub_block(html, script_open, script_close)
        no_style == sub_block(no_script, style_open, style_close)
        text == split_join(sub_tags(no_style))
    IN SubSeq(text, 1, Min({Len(text), MaxText}))

\* pieces of HTML documents
Plain ==
    <<"h", "i">>
Paragraph ==
    <<"<", "p", ">", "a", " ", "b", "<", "/", "p", ">">>
Script ==
    <<"<", "s", "c", "r", "i", "p", "t", ">", "$", "=", "1", "<", "/", "s", "c", "r", "i", "p", "t", ">">>
ScriptUpper ==
    <<"<", "S", "C", "R", "I", "P", "T", ">", "$", "=", "1", "<", "/", "S", "C", "R", "I", "P", "T", ">">>
Style ==
    <<"<", "s", "t", "y", "l", "e", ">", "%", "{", "}", "<", "/", "s", "t", "y", "l", "e", ">">>
StyleMixed ==
    <<"<", "S", "t", "y", "l", "e", ">", "%", "{", "}", "<", "/", "S", "t", "y", "l", "e", ">">>
Blank ==
    <<" ", "\n", " ">>
ScriptLines ==
    <<"<", "s", "c", "r", "i", "p", "t", " ", "s", "r", "c", "=", "x", ">", "\n", "$", "\n", "<", "/", "s", "c", "r", "i", "p", "t", ">">>
LessThan ==
    <<"a", " ", "<", " ", "b">>

Fragments ==
    {<<>>, Plain, Paragraph, Script, ScriptUpper, Style, StyleMixed, Blank, ScriptLines,
     LessThan}

\* a page longer than MaxText, without and with markup
LongText == [i \in 1..(MaxText + 1) |-> "a"]

Documents ==
    {a \o b \o c : a \in Fragments, b \in Fragments, c \in Fragments}
    \cup {LongText, Script \o LongText \o Paragraph}

ExtractText ==
    /\ text_content = None
    /\ text_content' = _extract_text(html_content)
    /\ UNCHANGED <<avars, lvars, evars, cvars, json_body, parse_result, html_content>>

\* any HTML document
ExtractInit ==
    /\ AInit /\ LInit /\ EInit /\ CInit
    /\ json_body = None
    /\ parse_result = None
    /\ html_content \in Documents
    /\ text_content = None

(***************************************************************************)
(* Specifications                                                          *)
(***************************************************************************)
Init == AInit /\ LInit /\ EInit /\ FInit /\ CInit

\* one analyze_url call, from any URL and under any remote outcomes
Next ==
    \/ \E u \in Urls : Analyze(u) /\ UNCHANGED <<lvars, evars, fvars, cvars>>
    \/ \E o \in Outcomes : Outcome(o) /\ UNCHANGED <<lvars, evars, fvars, cvars>>
    \/ Retry /\ UNCHANGED <<lvars, evars, fvars, cvars>>

Spec == Init /\ [][Next]_vars

\* concurrent requests to the endpoint, sharing the rate limiter
LNext ==
    \/ \E h \in Handlers : Handle(h) /\ UNCHANGED <<avars, evars, fvars, cvars>>
    \/ \E h \in Handlers, ok \in BOOLEAN : Respond(h, ok) /\ UNCHANGED <<avars, evars, fvars, cvars>>
    \/ \E d \in Steps : Tick(d) /\ UNCHANGED <<avars, evars, fvars, cvars>>

SpecLimiter == Init /\ [][LNext]_vars

\* one request to one of the endpoints, under any remote outcomes
EndpointsNext ==
    \/ PostAnalyzeText("analyze-email") /\ UNCHANGED <<fvars, cvars>>
    \/ PostAnalyzeText("analyze-page") /\ UNCHANGED <<fvars, cvars>>
    \/ \E u \in Urls : PostAnalyzeUrl(u) /\ UNCHANGED <<fvars, rejected>>
    \/ \E f \in FormRequests : PostAnalyzeForm(f) /\ UNCHANGED <<fvars, cvars>>
    \/ \E o \in Outcomes : PostOutcome(o) /\ UNCHANGED <<fvars, cvars>>
    \/ request # None /\ Retry /\ UNCHANGED <<lvars, evars, fvars, cvars>>

\* direct calls of check_limit for several identifiers, as time passes
CallsNext ==
    \/ \E i \in Identifiers : CheckLimit(i) /\ UNCHANGED <<avars, evars, fvars>>
    \/ \E d \in Steps :
          now + d <= MaxCallTime /\ Tick(d) /\ UNCHANGED <<avars, evars, fvars, cvars>>

SpecCalls == Init /\ [][CallsNext]_vars

SpecEndpoints == EndpointsInit /\ [][EndpointsNext]_vars

\* one _parse_llm_response call on any body
ParserNext == ParseLlmResponse

SpecParser == ParserInit /\ [][ParserNext]_vars

\* one _extract_text call on any document
ExtractNext == ExtractText

SpecExtract == ExtractInit /\ [][ExtractNext]_vars

(***************************************************************************)
(* Properties                                                              *)
(***************************************************************************)
Levels == {"safe", "low", "medium", "high", "critical"}
Severity == [safe |-> 0, low |-> 1, medium |-> 2, high |-> 3, critical |-> 4]

\* the value of key k of the judgment returned by analyze_text, d if absent
Llm(k, d) == IF k \in DOMAIN llm_result THEN llm_result[k] ELSE d

\* the remote call or the parsing of its answer failed
RemoteFailed == pc = "done" /\ sent[Len(sent)] # "200"

\* C1: when the heuristic level and the LLM level are both among
\* safe < low < medium < high < critical, _combine_results returns the more
\* severe of the two: the fused level is one of the inputs and is below neither.
C1_FusedLevelIsMax ==
    (/\ pc = "done"
     /\ heuristic_result.risk_level \in Levels
     /\ Llm("risk_level", "absent") \in Levels)
    => /\ raised = "none"
       /\ final_result.risk_level \in {heuristic_result.risk_level, llm_result["risk_level"]}
       /\ Severity[final_result.risk_level] >= Severity[heuristic_result.risk_level]
       /\ Severity[final_result.risk_level] >= Severity[llm_result["risk_level"]]

\* C1 witness: a low heuristic verdict fused with a critical LLM judgment
C1_Witness ==
    /\ pc = "done"
    /\ heuristic_result.risk_level = "low"
    /\ Llm("risk_level", "absent") = "critical"
    /\ raised = "none"
    /\ final_result.risk_level = "critical"

\* a valid judgment or a typed failure
WellFormed ==
    \/ DOMAIN llm_result = {"error"}
    \/ /\ "error" \notin DOMAIN llm_result
       /\ Llm("risk_level", "safe") \in Levels
       /\ Llm("confidence", 0) \in 0..100

\* C2: for every URL, malformed ones included, and every well-formed
\* classifier outcome, analyze_url returns a Verdict and does not raise.
C2_AnalyzeUrlNeverRaises ==
    (pc = "done" /\ WellFormed)
    => /\ raised = "none"
       /\ final_result.risk_level \in Levels \cup {"unknown"}

\* C3: an LLM judgment whose risk_level is missing or outside the five levels
\* is treated as safe: the call returns the heuristic risk_level and does not fail.
C3_UnknownLlmLevelIsSafe ==
    (/\ pc = "done"
     /\ heuristic_result.risk_level \in Levels
     /\ Llm("risk_level", "absent") \notin Levels)
    => /\ raised = "none"
       /\ final_result.risk_level = heuristic_result.risk_level

\* C4: whenever the remote call or its parsing fails, analyze_url returns the
\* heuristic-only Verdict: the heuristic level, 0.4 * heuristic confidence, the
\* reasoning with an empty LLM part, the action of that confidence, and the
\* heuristic indicators.
C4_DegradesToHeuristicOnly ==
    RemoteFailed
    => /\ raised = "none"
       /\ final_result.risk_level = heuristic_result.risk_level
       /\ final_result.confidence_x10 = 4 * heuristic_result.confidence
       /\ final_result.reasoning
            = <<"Heuristic: ">> \o heuristic_result.reasoning \o <<" | LLM: ">>
       /\ final_result.action
            = (IF 4 * heuristic_result.confidence >= 850 THEN "block"
               ELSE IF 4 * heuristic_result.confidence >= 500 THEN "warn" ELSE "safe")
       /\ final_result.phishing_indicators = heuristic_result.phishing_indicators

\* C5: the fused confidence is min(0.4 * h + 0.6 * l, 100), a missing LLM
\* confidence counting as 0, and lies in [0, 100] (here in tenths).
C5_FusedConfidenceInRange ==
    (pc = "done" /\ raised = "none")
    => LET w == 4 * heuristic_result.confidence + 6 * Llm("confidence", 0)
       IN /\ final_result.confidence_x10 = (IF w < 1000 THEN w ELSE 1000)
          /\ final_result.confidence_x10 >= 0
          /\ final_result.confidence_x10 <= 1000

\* block from 85, warn from 50, safe below (confidence in tenths)
ActionAt(c10) == IF c10 >= 850 THEN "block" ELSE IF c10 >= 500 THEN "warn" ELSE "safe"

HeuristicActionFollowsConfidence ==
    heuristic_result.action = ActionAt(10 * heuristic_result.confidence)

FusedActionFollowsConfidence ==
    (pc = "done" /\ raised = "none")
    => final_result.action = ActionAt(final_result.confidence_x10)

\* C6 as stated: in every Verdict of the scorer and of the fusion step, for
\* every input, the action is the threshold function of that Verdict's confidence.
C6_ActionFollowsConfidence ==
    pc # "idle" => HeuristicActionFollowsConfidence /\ FusedActionFollowsConfidence

\* C6 amended: the same for every fused Verdict and for every scorer Verdict of
\* a URL that urlparse accepts; on a URL it rejects the scorer's degraded
\* Verdict has confidence 0 and action warn.
C6_ActionFollowsConfidenceUnlessDegraded ==
    pc # "idle"
    => /\ FusedActionFollowsConfidence
       /\ urlparse(url).exc = "none" => HeuristicActionFollowsConfidence
       /\ urlparse(url).exc # "none"
            => heuristic_result.confidence = 0 /\ heuristic_result.action = "warn"

\* C6 witness: a heuristic warn and an LLM block fused into confidence 26 + 0:
\* the fused action is safe, neither sub-action
C6_Witness ==
    /\ pc = "done"
    /\ raised = "none"
    /\ heuristic_result.action = "warn"
    /\ Llm("action", "absent") = "block"
    /\ final_result.action = "safe"

\* the points of the rules that fire on a parsed URL, rule by rule
PointsOf(u) ==
    LET parsed == urlparse(u)
    IN (IF _is_suspicious_domain(parsed.netloc) THEN 30 ELSE 0)
       + (IF _uses_ip_address(parsed.netloc) THEN 25 ELSE 0)
       + (IF ~startswith(u, https) THEN 20 ELSE 0)
       + (IF _has_suspicious_path(parsed.path) THEN 15 ELSE 0)
       + (IF _has_typosquatting_pattern(parsed.netloc) THEN 25 ELSE 0)

Bucket(c) ==
    IF c >= 80 THEN "critical" ELSE IF c >= 60 THEN "high"
    ELSE IF c >= 40 THEN "medium" ELSE IF c >= 20 THEN "low" ELSE "safe"

PaypalSecureLoginVerify ==
    <<"h", "t", "t", "p", ":", "/", "/">>
    \o <<"p", "a", "y", "p", "a", "l", "-", "s", "e", "c", "u", "r", "e", "-",
         "l", "o", "g", "i", "n", ".", "c", "o", "m">>
    \o <<"/", "v", "e", "r", "i", "f", "y">>

HttpsExampleCom ==
    <<"h", "t", "t", "p", "s", ":", "/", "/">>
    \o <<"e", "x", "a", "m", "p", "l", "e", ".", "c", "o", "m">>

ScoredAsSummed ==
    /\ heuristic_result.confidence
         = (IF PointsOf(url) < 100 THEN PointsOf(url) ELSE 100)
    /\ url = PaypalSecureLoginVerify
         => /\ heuristic_result.confidence = 65
            /\ heuristic_result.risk_level = "high"
            /\ heuristic_result.action = "warn"
    /\ url = HttpsExampleCom
         => /\ heuristic_result.confidence = 0
            /\ heuristic_result.risk_level = "safe"
            /\ heuristic_result.action = "safe"

\* C7 as stated: for every URL the scorer's confidence is the capped sum of
\* the points of the rules that fire, within [0, 100], and its risk_level is
\* the threshold bucket of that confidence.
C7_ScoreAndBucket ==
    pc # "idle"
    => /\ heuristic_result.confidence \in 0..100
       /\ heuristic_result.risk_level = Bucket(heuristic_result.confidence)
       /\ urlparse(url).exc = "none" => ScoredAsSummed

\* C7 amended: the same for every URL that urlparse accepts; on a URL it
\* rejects the scorer returns confidence 0 with risk_level unknown.
C7_ScoreAndBucketUnlessDegraded ==
    pc # "idle"
    => /\ heuristic_result.confidence \in 0..100
       /\ urlparse(url).exc = "none"
            => /\ heuristic_result.risk_level = Bucket(heuristic_result.confidence)
               /\ ScoredAsSummed
       /\ urlparse(url).exc # "none"
            => /\ heuristic_result.confidence = 0
               /\ heuristic_result.risk_level = "unknown"

\* C7 witness: domain + non-HTTPS + path scored 65, high, warn
C7_Witness ==
    /\ pc # "idle"
    /\ url = PaypalSecureLoginVerify
    /\ heuristic_result.confidence = 65
    /\ heuristic_result.risk_level = "high"

\* C8: analyze_text sends at most 2 requests, the second only after a first
\* that ended in HTTP 503 or a transport error; it sleeps only before that
\* second request; and it returns a dict, a failure when both attempts got 503.
C8_BoundedRetry ==
    /\ Len(sent) <= 2
    /\ Len(sent) = 2 => sent[1] \in {"503", "ClientError"}
    /\ pc = "sleep" => Len(sent) = 1 /\ sent[1] \in {"503", "ClientError"}
    /\ pc = "done"
         => /\ sent[Len(sent)] # "pending"
            /\ llm_result # None
            /\ sent[Len(sent)] # "200" => "error" \in DOMAIN llm_result
    /\ (pc = "done" /\ sent = <<"503", "503">>)
         => llm_result = [error |-> "LLM analysis failed: 503"]

\* C8 witness: 503 on both attempts
C8_Witness ==
    /\ pc = "done"
    /\ sent = <<"503", "503">>
    /\ DOMAIN llm_result = {"error"}

IsFailure == "error" \in DOMAIN llm_result /\ "risk_level" \notin DOMAIN llm_result
IsSuccess == "risk_level" \in DOMAIN llm_result /\ "error" \notin DOMAIN llm_result

\* C9 as stated: every result of analyze_text is a failure (an error, no
\* risk_level) or a success (a risk_level, no error), whatever the model wrote
\* (read on the calls whose URL parses).
C9_ExactlyOneShape ==
    (pc = "done" /\ urlparse(url).exc = "none") => (IsFailure \/ IsSuccess)

\* C9 amended: every result of a failed remote call or of a failed parse is a
\* failure: it carries an error and no risk_level.  Only a result decoded from
\* the model's own text can have another shape.
C9_FailureCarriesNoRiskLevel ==
    RemoteFailed => IsFailure

\* C9 witness: the model's text did not decode and the result is a failure
C9_Witness ==
    /\ pc = "done"
    /\ sent[Len(sent)] = "200 unparsable"
    /\ llm_result = [error |-> "Could not parse LLM response"]

\* the calls admitted for the limiter's identifier in the 3600 seconds up to
\* and including admitted call i
AdmittedInWindow(i) ==
    {j \in 1..Len(admitted) : admitted[i] - 3600 < admitted[j] /\ admitted[j] <= admitted[i]}

\* C10: under any interleaving of the endpoint's handlers, the calls of
\* check_limit that return True within any 3600-second window (t - 3600, t]
\* never exceed requests_per_hour.
C10_WindowNeverOverflows ==
    \A i \in 1..Len(admitted) : Cardinality(AdmittedInWindow(i)) <= requests_per_hour

\* C10 witness: one handler admitted and still analysing while another was
\* rejected, the window full, and calls admitted again after an earlier window
C10_Witness ==
    /\ Len(requests["default"]) = requests_per_hour
    /\ Len(admitted) > requests_per_hour
    /\ \E g, h \in Handlers : g # h /\ rpc[g].at = "analyzing" /\ rpc[h].status = 500

\* the host of an authority: what follows the last "@" (userinfo) and
\* precedes the first ":" after it (port)
HostOf(netloc) ==
    LET ats == {i \in 1..Len(netloc) : netloc[i] = "@"}
        hostport == IF ats = {} THEN netloc ELSE SubSeq(netloc, Max(ats) + 1, Len(netloc))
        colon == find_any(hostport, {":"}, 1)
    IN IF colon = 0 THEN hostport ELSE SubSeq(hostport, 1, colon - 1)

IsDottedQuad(host) ==
    LET parts == split_dot(host)
    IN Len(parts) = 4 /\ \A i \in 1..4 : all_digits(parts[i])

\* C11: for every URL whose host is a dotted-quad IPv4 address, with or
\* without a port or userinfo in the authority, _uses_ip_address is true and
\* the heuristic result carries the IP-address factor and its 25 points.
C11_DottedQuadHostScoresIp ==
    (/\ pc # "idle"
     /\ urlparse(url).exc = "none"
     /\ IsDottedQuad(HostOf(urlparse(url).netloc)))
    => /\ _uses_ip_address(urlparse(url).netloc)
       /\ \E i \in 1..Len(heuristic_result.phishing_indicators) :
             heuristic_result.phishing_indicators[i] = "Using IP address instead of domain"
       /\ heuristic_result.confidence >= 25

\* what the core handed the endpoint: the fused dict of analyze_url, or the
\* dict analyze_page_content / analyze_email returned
CoreResult == IF request.endpoint = "analyze-url" THEN final_result ELSE llm_result

Populated(v) ==
    /\ {"risk_level", "reasoning", "action"} \subseteq DOMAIN v
    /\ "confidence" \in DOMAIN v \/ "confidence_x10" \in DOMAIN v

\* C12: for the URL, page and email endpoints, when the remote call or the
\* parse failed, the core result is a populated verdict (risk_level,
\* confidence, reasoning, action) and the endpoint answers 200, not an error.
C12_FailureNeverReachesCaller ==
    (/\ request # None
     /\ request.endpoint \in {"analyze-url", "analyze-page", "analyze-email"}
     /\ RemoteFailed)
    => /\ Populated(CoreResult)
       /\ reply.status = 200

\* the generated text of a body, as _parse_llm_response reads it
TextOf(b) == IF b.has_text /\ ~(b.shape = "list" /\ b.items = 0) THEN b.text ELSE <<>>

FirstOpen(t) == Min({i \in 1..Len(t) : t[i].t = "{"} \cup {Len(t) + 1})
LastClose(t) == Max({i \in 1..Len(t) : t[i].t = "}"} \cup {0})

\* the tokens strictly between the first "{" and the last "}"
Between(t) == SubSeq(t, FirstOpen(t) + 1, LastClose(t) - 1)

\* the object a well-formed member list denotes: the last member of a key wins
ObjectOf(ms) ==
    LET at(k) == Max({i \in 1..Len(ms) : ms[i].t = "member" /\ ms[i].k = k})
    IN [k \in {ms[i].k : i \in {j \in 1..Len(ms) : ms[j].t = "member"}} |-> ms[at(k)].m[k]]

Decodes(t) ==
    /\ FirstOpen(t) < LastClose(t)
    /\ \A i \in 1..Len(Between(t)) : Between(t)[i].t \in {"member", "newline"}

\* C13: _parse_llm_response always returns a dict; when the span from the
\* first "{" to the last "}" of the text (newlines included) is a JSON object
\* it returns exactly that object, prose before it ignored; when there is no
\* such span or it does not decode it returns a dict holding only "error".
C13_ParserContract ==
    parse_result # None
    => IF Decodes(TextOf(json_body))
       THEN parse_result = ObjectOf(Between(TextOf(json_body)))
       ELSE DOMAIN parse_result = {"error"}

C13_Witness ==
    /\ json_body # None
    /\ json_body.text = ScenarioLines
    /\ parse_result = [risk_level |-> "high", confidence |-> 90]

\* HTML tag names are case-insensitive: the letters of "script" and "style"
FoldChar(c) ==
    CASE c = "S" -> "s" [] c = "C" -> "c" [] c = "R" -> "r" [] c = "I" -> "i"
      [] c = "P" -> "p" [] c = "T" -> "t" [] c = "Y" -> "y" [] c = "L" -> "l"
      [] c = "E" -> "e" [] OTHER -> c

Fold(s) == [i \in 1..Len(s) |-> FoldChar(s[i])]

\* the positions of html inside a <script> or <style> block, in any letter
\* case: after the ">" of an opening tag and before the next closing tag
BlockPositions(html) ==
    LET h == Fold(html)
        inside(open, close) ==
            UNION { LET tag_end == find(h, <<">">>, o + Len(open))
                        block_end == IF tag_end = 0 THEN 0 ELSE find(h, close, tag_end + 1)
                    IN IF block_end = 0 THEN {} ELSE (tag_end + 1)..(block_end - 1)
                    : o \in {i \in 1..(Len(h) - Len(open) + 1) :
                                SubSeq(h, i, i + Len(open) - 1) = open} }
    IN inside(script_open, script_close) \cup inside(style_open, style_close)

\* the characters html has inside its script and style blocks and nowhere else
BlockOnlyChars(html) ==
    {html[i] : i \in BlockPositions(html)}
    \ {html[i] : i \in (1..Len(html)) \ BlockPositions(html)}

\* C14: the text _extract_text returns holds no character that the document
\* has only inside its <script> and <style> blocks, whatever the letter case
\* of the tags, and is at most 5000 characters long.
C14_NoBlockContentAndBounded ==
    text_content # None
    => /\ {text_content[i] : i \in 1..Len(text_content)} \cap BlockOnlyChars(html_content) = {}
       /\ Len(text_content) <= 5000

\* the limit check of the request returned False
LimitExceeded ==
    /\ request # None
    /\ request.endpoint = "analyze-url"
    /\ called # None
    /\ ~called.result

\* C15: when check_limit returns False for a POST /api/analyze-url request,
\* the endpoint answers 429 "Rate limit exceeded" and runs no analysis: no
\* heuristic scoring and no request to the remote classifier.
C15_RateLimitedAnswers429 ==
    LimitExceeded
    => /\ reply.status = 429
       /\ reply.detail = "Rate limit exceeded"
       /\ heuristic_result = None
       /\ sent = <<>>

\* C16: for every form request, /api/analyze-form answers with an
\* AnalysisResponse whose risk_level, confidence, reasoning and action are
\* those PhishingAnalyzer.analyze_form computes for the request.
C16_FormEndpointReturnsAnalyzerResult ==
    (request # None /\ request.endpoint = "analyze-form")
    => /\ reply.status = 200
       /\ reply.risk_level = analyze_form(request).risk_level
       /\ reply.confidence = analyze_form(request).confidence
       /\ reply.reasoning = analyze_form(request).reasoning
       /\ reply.action = analyze_form(request).action

\* C17: whenever the remote classifier failed, the action of the Verdict
\* analyze_url returns is safe, whatever the heuristic's own risk_level and
\* action were: the fused confidence 0.4 * heuristic confidence stays below
\* the warn threshold of 50.
C17_DegradedActionIsSafe ==
    (RemoteFailed /\ raised = "none")
    => /\ final_result.action = "safe"
       /\ final_result.confidence_x10 = 4 * heuristic_result.confidence
       /\ final_result.confidence_x10 < 500

\* C17 witness: the heuristic said critical / block, the remote call failed,
\* and the Verdict says safe
C17_Witness ==
    /\ RemoteFailed
    /\ raised = "none"
    /\ heuristic_result.risk_level = "critical"
    /\ heuristic_result.action = "block"
    /\ final_result.risk_level = "critical"
    /\ final_result.action = "safe"

\* the admissions of "default" before its latest recorded call
PriorAdmitted ==
    IF called.result THEN SubSeq(admitted, 1, Len(admitted) - 1) ELSE admitted

\* a call of "default" returns True exactly when fewer than requests_per_hour
\* of its earlier admitted calls are less than 3600 seconds old: rejected
\* calls and the calls of other identifiers do not count
AdmittedByHistoryOnly ==
    (called # None /\ called.identifier = "default")
    => (called.result
        <=> Cardinality({j \in 1..Len(PriorAdmitted) : PriorAdmitted[j] > called.at - 3600})
               < requests_per_hour)

\* a step in which a call returned False leaves every identifier's entries
\* as they were: no timestamp is recorded
RejectedCallRecordsNothing ==
    (\E i \in Identifiers : rejected'[i] = rejected[i] + 1) => requests' = requests

\* C18: a check_limit call that returns False records no timestamp and
\* changes no identifier's entries, so whether a call is admitted depends
\* only on the identifier's admitted calls of the last 3600 seconds: at its
\* limit it is admitted again once the oldest of them is more than 3600
\* seconds old, however many calls were rejected in between.
C18_RejectedCallsLeaveNoTrace ==
    [][RejectedCallRecordsNothing]_vars /\ []AdmittedByHistoryOnly

\* C18 witness: "default" reached its limit, was rejected twice, "client"
\* recorded its own calls, and "default" is admitted again once its first
\* admission is more than 3600 seconds old
C18_Witness ==
    /\ called # None
    /\ called.identifier = "default"
    /\ called.result
    /\ Len(admitted) = requests_per_hour + 1
    /\ called.at - admitted[1] > 3600
    /\ called.at - admitted[2] < 3600
    /\ rejected["default"] = 2
    /\ rejected["client"] > 0
====
